---- MODULE Spec2Model ----
(***************************************************************************)
(* GPT Deadline (src/src/App.jsx): the cycle-time engine of the countdown  *)
(* widget. The model covers the recurring-cycle resolver (rollCycleToNow), *)
(* the milestone calculator (milestoneTimes), the progress computation of  *)
(* GPTDeadlineApp, the persisted cycle (loadState / saveState) and the     *)
(* reminder scheduler (the effect of useReminders with its asynchronous    *)
(* schedule() calls, the browser's timer table and the notification        *)
(* permission request).                                                    *)
(*                                                                         *)
(* Time. A Luxon DateTime is modelled by its instant, an integer number of *)
(* whole seconds of local Asia/Kathmandu time counted from                 *)
(* 2025-01-01T00:00 local. The zone has a fixed offset (+05:45, no         *)
(* daylight saving), so differences of these instants are the differences  *)
(* of toMillis() divided by 1000; the local time of another zone of a      *)
(* stored cycle is the instant plus Offset(zone, instant). Every duration  *)
(* constant of the source is                                               *)
(* kept under its own name and expressed in this unit of 1000 ms, because  *)
(* the millisecond values of the source exceed the integers of the model   *)
(* checker. An ISO string or a datetime-local input value is modelled by   *)
(* the record of its calendar fields; parsing and formatting convert       *)
(* between fields and instants through the Gregorian calendar.             *)
(***************************************************************************)
EXTENDS Integers, Sequences, FiniteSets, TLC

\* ------------------------------------------------------------------ utils

\* src/src/App.jsx:129-131 (in units of 1000 ms)
MS_PER_MIN == 60
MS_PER_HOUR == 60 * MS_PER_MIN
MS_PER_DAY == 24 * MS_PER_HOUR

\* Math.max / Math.min
Max(a, b) == IF a >= b THEN a ELSE b
Min(a, b) == IF a <= b THEN a ELSE b

\* const clamp = (n, min, max) => Math.max(min, Math.min(max, n));
clamp(n, min, max) == Max(min, Min(max, n))

\* ------------------------------------------------------- Gregorian calendar
\* What Luxon's DateTime does with calendar fields in the cycle's zone.

\* Day 0 of the model, 2025-01-01, counted in days from 0000-03-01, the
\* origin of the proleptic Gregorian day count used below.
EpochDay == 365 * 2024 + 2024 \div 4 - 2024 \div 100 + 2024 \div 400 + 306

DaysInMonth(y, m) ==
  IF m = 2
  THEN (IF (y % 4 = 0 /\ y % 100 # 0) \/ y % 400 = 0 THEN 29 ELSE 28)
  ELSE IF m \in {4, 6, 9, 11} THEN 30 ELSE 31

\* A calendar-fields record: what an ISO string such as
\* "2025-08-20T07:18:00+05:45" or an input value "2025-08-20T07:18" spells.
Fields(y, mo, d, h, mi, s) ==
  [year |-> y, month |-> mo, day |-> d, hour |-> h, minute |-> mi, second |-> s]

\* DateTime.fromObject: the instant of a calendar-fields record (the day
\* count of the Gregorian calendar, years counted from March).
FromFields(f) ==
  LET y   == IF f.month <= 2 THEN f.year - 1 ELSE f.year
      mp  == IF f.month > 2 THEN f.month - 3 ELSE f.month + 9
      doy == (153 * mp + 2) \div 5 + f.day - 1
      day == 365 * y + y \div 4 - y \div 100 + y \div 400 + doy - EpochDay
  IN  day * MS_PER_DAY + f.hour * MS_PER_HOUR + f.minute * MS_PER_MIN + f.second

\* The calendar fields of an instant (dt.year, dt.month, ...).
ToFields(t) ==
  LET z   == t \div MS_PER_DAY + EpochDay
      sod == t % MS_PER_DAY
      era == z \div 146097
      doe == z % 146097
      yoe == (doe - doe \div 1460 + doe \div 36524 - doe \div 146096) \div 365
      doy == doe - (365 * yoe + yoe \div 4 - yoe \div 100)
      mp  == (5 * doy + 2) \div 153
      mo  == IF mp < 10 THEN mp + 3 ELSE mp - 9
  IN  Fields(yoe + era * 400 + (IF mo <= 2 THEN 1 ELSE 0), mo,
             doy - (153 * mp + 2) \div 5 + 1,
             sod \div MS_PER_HOUR, (sod % MS_PER_HOUR) \div MS_PER_MIN, sod % MS_PER_MIN)

\* function inZone(iso, zone): DateTime.fromISO(iso, { zone })
inZone(iso) == FromFields(iso)

\* dt.toISO(): the ISO string keeps the seconds.
toISO(dt) == ToFields(dt)

\* function asLocalInputValue(dt): dt.toFormat("yyyy-LL-dd'T'HH:mm"), seconds dropped.
asLocalInputValue(dt) == [ToFields(dt) EXCEPT !.second = 0]

\* PlusMonthsFields that keeps the day of the month as it is, so that a day
\* past the end of the target month runs into the month after.
PlusMonthsFields_noClamp(f, months) ==
  LET idx == (f.month - 1) + months
  IN  [f EXCEPT !.year = f.year + idx \div 12, !.month = (idx % 12) + 1]

\* PlusMonthsFields that takes the last day of a month to the last day of
\* the target month.
PlusMonthsFields_endOfMonth(f, months) ==
  LET idx == (f.month - 1) + months
      y   == f.year + idx \div 12
      mo  == (idx % 12) + 1
  IN  [f EXCEPT !.year = y, !.month = mo,
                !.day = IF f.day = DaysInMonth(f.year, f.month)
                        THEN DaysInMonth(y, mo)
                        ELSE Min(f.day, DaysInMonth(y, mo))]

\* The calendar fields f moved on by months, the day clamped to the length
\* of the target month.
PlusMonthsFields(f, months) ==
  LET idx == (f.month - 1) + months
      y   == f.year + idx \div 12
      mo  == (idx % 12) + 1
  IN  [f EXCEPT !.year = y, !.month = mo, !.day = Min(f.day, DaysInMonth(y, mo))]

\* ------------------------------------------------------------------ zones
\* The zone of a DateTime is carried beside its instant: the operators
\* below take the zone of the DateTime they work on as their first
\* parameter.

\* const DEFAULT_ZONE, and a zone with daylight saving that a stored record
\* can name in its timezone key.
DEFAULT_ZONE == "Asia/Kathmandu"
Zones == {DEFAULT_ZONE, "America/New_York"}

\* Daylight saving in America/New_York, as instants of the model: from
\* 07:00 UTC on the second Sunday of March to 06:00 UTC on the first Sunday
\* of November (12:45 and 11:45 in Asia/Kathmandu).
DstPeriods ==
  {<<FromFields(Fields(2025, 3, 9, 12, 45, 0)), FromFields(Fields(2025, 11, 2, 11, 45, 0))>>,
   <<FromFields(Fields(2026, 3, 8, 12, 45, 0)), FromFields(Fields(2026, 11, 1, 11, 45, 0))>>}

\* zone.offset(ts): local time in the zone minus the model's instant (local
\* Asia/Kathmandu time), in units of 1000 ms. New York is 9 h 45 min behind
\* Kathmandu in summer and 10 h 45 min behind in winter.
Offset(zone, t) ==
  IF zone = DEFAULT_ZONE THEN 0
  ELSE IF \E p \in DstPeriods : p[1] <= t /\ t < p[2]
       THEN 0 - (9 * MS_PER_HOUR + 45 * MS_PER_MIN)
       ELSE 0 - (10 * MS_PER_HOUR + 45 * MS_PER_MIN)

\* Luxon's fixOffset(localTS, o, tz): the instant of a local time in the
\* zone, guessed with the offset o and corrected when the zone's offset at
\* the guess differs.
fixOffset(zone, localTS, o) ==
  LET g1 == localTS - o
      o2 == Offset(zone, g1)
      g2 == g1 - (o2 - o)
      o3 == Offset(zone, g2)
  IN  IF o = o2 THEN g1
      ELSE IF o2 = o3 THEN g2
      ELSE localTS - Min(o2, o3)

\* dt.minus({ days }): calendar subtraction, the local time of day kept
\* (Luxon shifts the local fields and converts back through fixOffset).
MinusDays(zone, dt, days) ==
  fixOffset(zone, dt + Offset(zone, dt) - days * MS_PER_DAY, Offset(zone, dt))

\* dt.minus({ hours }): subtraction of elapsed time.
MinusHours(dt, hours) == dt - hours * MS_PER_HOUR

\* dt.plus({ months }): calendar add, local time kept.
PlusMonths(zone, dt, months) ==
  fixOffset(zone,
            FromFields(PlusMonthsFields(ToFields(dt + Offset(zone, dt)), months)),
            Offset(zone, dt))

\* function monthAddCalendar(dt, months = 1)
monthAddCalendar(zone, dt, months) == PlusMonths(zone, dt, months)

\* ------------------------------------------------------------ cycle engine

Kinds == {"halfway", "threeDays", "lastDay", "renewal"}

AllOn == [k \in Kinds |-> TRUE]

\* const DEFAULT_CYCLE (plan is never read and is left out). An ISO string
\* is modelled by the calendar fields of its instant at +05:45.
DEFAULT_CYCLE ==
  [timezone   |-> DEFAULT_ZONE,
   startISO   |-> Fields(2025, 8, 20, 7, 18, 0),
   endISO     |-> Fields(2025, 9, 20, 7, 18, 0),
   reminders  |-> AllOn,
   theme      |-> "system",
   hourFormat |-> "12h"]

ResolvedWindow(start, end, rolled) == [start |-> start, end |-> end, rolled |-> rolled]

\* RollLoop that moves the end on and leaves the start where it was.
RECURSIVE RollLoop_keepStart(_, _, _, _, _)
RollLoop_keepStart(zone, start, end, rolled, now) ==
  IF now >= end
  THEN RollLoop_keepStart(zone, start, monthAddCalendar(zone, end, 1), TRUE, now)
  ELSE ResolvedWindow(start, end, rolled)

\* RollLoop that never sets rolled.
RECURSIVE RollLoop_flagKept(_, _, _, _, _)
RollLoop_flagKept(zone, start, end, rolled, now) ==
  IF now >= end
  THEN RollLoop_flagKept(zone, end, monthAddCalendar(zone, end, 1), rolled, now)
  ELSE ResolvedWindow(start, end, rolled)

\* The while loop of rollCycleToNow (lines 219-223).
RECURSIVE RollLoop(_, _, _, _, _)
RollLoop(zone, start, end, rolled, now) ==
  IF now >= end
  THEN RollLoop(zone, end, monthAddCalendar(zone, end, 1), TRUE, now)
  ELSE ResolvedWindow(start, end, rolled)

\* LoopIterations for a loop that runs while now > end.
RECURSIVE LoopIterations_gt(_, _, _)
LoopIterations_gt(zone, end, now) ==
  IF now > end THEN 1 + LoopIterations_gt(zone, monthAddCalendar(zone, end, 1), now)
  ELSE 0

\* The number of times the body of the while loop of rollCycleToNow runs
\* (lines 219-223) when it is entered with end.
RECURSIVE LoopIterations(_, _, _)
LoopIterations(zone, end, now) ==
  IF now >= end THEN 1 + LoopIterations(zone, monthAddCalendar(zone, end, 1), now)
  ELSE 0

\* The iterations of the loop in one call of rollCycleToNow: none when the
\* call returns early (lines 213-216).
RollIterations(zone, start, end, now) ==
  IF now < start THEN 0 ELSE LoopIterations(zone, end, now)

\* Roll that rolls only once now is past the end: at now = end the anchor
\* window is returned.
Roll_gt(zone, start, end, now) ==
  IF now < start \/ now = end
  THEN ResolvedWindow(start, end, FALSE)
  ELSE RollLoop(zone, start, end, FALSE, now)

\* Roll with the start and end of the pre-cycle return swapped.
Roll_swapped(zone, start, end, now) ==
  IF now < start
  THEN ResolvedWindow(end, start, FALSE)
  ELSE RollLoop(zone, start, end, FALSE, now)

\* Roll with the pre-cycle return reporting a rollover.
Roll_preCycleRolled(zone, start, end, now) ==
  IF now < start
  THEN ResolvedWindow(start, end, TRUE)
  ELSE RollLoop(zone, start, end, FALSE, now)

\* The body of rollCycleToNow (lines 211-224) for the parsed start and end.
Roll(zone, start, end, now) ==
  IF now < start
  THEN ResolvedWindow(start, end, FALSE)
  ELSE RollLoop(zone, start, end, FALSE, now)

\* rollCycleToNow that returns the stored window as it is.
rollCycleToNow_stored(cycle, now) ==
  ResolvedWindow(inZone(cycle.startISO), inZone(cycle.endISO), FALSE)

\* function rollCycleToNow(cycle, now)
rollCycleToNow(cycle, now) ==
  Roll(cycle.timezone, inZone(cycle.startISO), inZone(cycle.endISO), now)

\* milestoneTimes with the last-day milestone 72 hours before the end.
milestoneTimes_lastDay72(start, end) ==
  [halfway   |-> start + (end - start) \div 2,
   threeDays |-> end - 3 * MS_PER_DAY,
   lastDay   |-> end - 72 * MS_PER_HOUR,
   renewal   |-> end]

\* function milestoneTimes(start, end) for a start and end in zone. Every
\* instant of the model is a whole minute, so totalMs / 2 is a whole second.
milestoneTimesIn(zone, start, end) ==
  [halfway   |-> start + (end - start) \div 2,
   threeDays |-> MinusDays(zone, end, 3),
   lastDay   |-> MinusHours(end, 24),
   renewal   |-> end]

\* milestoneTimes(start, end) for a start and end in the default zone, the
\* zone of every cycle the application itself saves.
milestoneTimes(start, end) == milestoneTimesIn(DEFAULT_ZONE, start, end)

\* reminderTimes with the renewal reminder at the renewal itself.
reminderTimes_atRenewal(start, end) == milestoneTimes(start, end)

\* The instants the effect of useReminders hands to schedule() (lines
\* 366-370): the milestones, the renewal reminder five minutes early.
reminderTimes(start, end) ==
  [milestoneTimes(start, end) EXCEPT !.renewal = @ - 5 * MS_PER_MIN]

\* A JavaScript quotient a / b kept as numerator and denominator; 0 / 0 is NaN.
Quotient(a, b) == [num |-> a, den |-> b, isNaN |-> (a = 0 /\ b = 0)]

\* The quotient q rounded to the nearest multiple of 1 / scale, halves up,
\* as a whole number of such parts. Numerator and denominator are whole
\* minutes and are divided by a minute first to keep the products small.
Rounded(q, scale) ==
  ((q.num \div MS_PER_MIN) * 2 * scale + (q.den \div MS_PER_MIN))
    \div (2 * (q.den \div MS_PER_MIN))

\* function pct(n): (n * 100).toFixed(1), as tenths of a percent.
pct(n) == Rounded(n, 1000)

\* Progress that reports the time remaining as the time elapsed.
Progress_remaining(start, end, now) ==
  [totalMs     |-> end - start,
   elapsedMs   |-> clamp(end - now, 0, end - start),
   remainingMs |-> clamp(end - now, 0, end - start),
   progress    |-> Quotient(clamp(end - now, 0, end - start), end - start)]

\* Progress with the time remaining left unclamped.
Progress_unclamped(start, end, now) ==
  [totalMs     |-> end - start,
   elapsedMs   |-> clamp(now - start, 0, end - start),
   remainingMs |-> end - now,
   progress    |-> Quotient(clamp(now - start, 0, end - start), end - start)]

\* The progress computation of GPTDeadlineApp (lines 506-509).
Progress(start, end, now) ==
  [totalMs     |-> end - start,
   elapsedMs   |-> clamp(now - start, 0, end - start),
   remainingMs |-> clamp(end - now, 0, end - start),
   progress    |-> Quotient(clamp(now - start, 0, end - start), end - start)]

\* ------------------------------------------------- the countdown parts

\* n units of the model's clock (1000 ms each) in milliseconds.
Millis(n) == 1000 * n

\* durationBreakdown with the seconds rounded to the nearest second.
durationBreakdown_rounded(ms) ==
  [days    |-> ms \div Millis(MS_PER_DAY),
   hours   |-> (ms % Millis(MS_PER_DAY)) \div Millis(MS_PER_HOUR),
   minutes |-> (ms % Millis(MS_PER_HOUR)) \div Millis(MS_PER_MIN),
   seconds |-> ((ms % Millis(MS_PER_MIN)) + 500) \div 1000]

\* The remainders rem1 and rem2 of durationBreakdown (lines 171 and 173).
Rem1(ms) == ms - (ms \div Millis(MS_PER_DAY)) * Millis(MS_PER_DAY)
Rem2(ms) == Rem1(ms) - (Rem1(ms) \div Millis(MS_PER_HOUR)) * Millis(MS_PER_HOUR)

\* function durationBreakdown(ms), for ms >= 0, where Math.floor of a
\* quotient is the integer quotient.
durationBreakdown(ms) ==
  [days    |-> ms \div Millis(MS_PER_DAY),
   hours   |-> Rem1(ms) \div Millis(MS_PER_HOUR),
   minutes |-> Rem2(ms) \div Millis(MS_PER_MIN),
   seconds |-> (Rem2(ms) - (Rem2(ms) \div Millis(MS_PER_MIN)) * Millis(MS_PER_MIN)) \div 1000]

\* const totalSec = Math.floor(ms / 1000) of msToParts (line 23).
TotalSec(ms) == ms \div 1000

\* function msToParts(ms), for ms >= 0 (lines 22-29).
msToParts(ms) ==
  [days    |-> TotalSec(ms) \div 86400,
   hours   |-> (TotalSec(ms) % 86400) \div 3600,
   minutes |-> (TotalSec(ms) % 3600) \div 60,
   seconds |-> TotalSec(ms) % 60]

\* Both breakdowns of the millisecond count ms.
Parts(ms) ==
  [ms |-> ms, durationBreakdown |-> durationBreakdown(ms), msToParts |-> msToParts(ms)]

\* ------------------------------------------------------------ persistence

\* A value of the localStorage item "gpt-deadline:cycle": no item, an item
\* that is not JSON, or a JSON object holding some of the cycle's keys.
NoItem == [tag |-> "none", val |-> << >>]
CorruptItem == [tag |-> "corrupt", val |-> << >>]
JsonItem(obj) == [tag |-> "json", val |-> obj]

\* { ...fallback, ...parsed }: a shallow merge, key by key.
Spread(fallback, parsed) ==
  [k \in (DOMAIN fallback) \cup (DOMAIN parsed) |->
     IF k \in DOMAIN parsed THEN parsed[k] ELSE fallback[k]]

\* function loadState(key, fallback)
loadState(item, fallback) ==
  IF item.tag = "none" THEN fallback
  ELSE IF item.tag = "corrupt" THEN fallback
  ELSE Spread(fallback, item.val)

\* function saveState(key, val): the item becomes JSON.stringify(val).
saveState(val) == JsonItem(val)

\* ------------------------------------------------------------------ bounds

\* Rearm passes (runs of the effect of useReminders) in one behaviour.
MaxPasses == 2
\* One-second ticks of the QA clock after each value it is set to.
MaxQaTicks == 2
\* Presses of the snooze buttons in one behaviour.
MaxSnoozes == 2
\* Cycle boundaries after the anchor end that are looked at.
MaxBoundaries == 16
\* Settings operations of the user (setCycle calls and refused date edits)
\* in one behaviour.
MaxEdits == 1

\* ------------------------------------------------------------------ inputs

AUG10 == FromFields(Fields(2025, 8, 10, 0, 0, 0))
AUG20 == FromFields(Fields(2025, 8, 20, 7, 18, 0))
AUG21 == FromFields(Fields(2025, 8, 21, 10, 0, 0))
SEP01 == FromFields(Fields(2025, 9, 1, 10, 0, 0))
SEP10 == FromFields(Fields(2025, 9, 10, 0, 0, 0))
SEP16 == FromFields(Fields(2025, 9, 16, 0, 0, 0))
SEP18 == FromFields(Fields(2025, 9, 18, 7, 18, 0))
SEP20_0715 == FromFields(Fields(2025, 9, 20, 7, 15, 0))
SEP20 == FromFields(Fields(2025, 9, 20, 7, 18, 0))
SEP25 == FromFields(Fields(2025, 9, 25, 0, 0, 0))
OCT01 == FromFields(Fields(2025, 10, 1, 0, 0, 0))
OCT20 == FromFields(Fields(2025, 10, 20, 7, 18, 0))
NOV25 == FromFields(Fields(2025, 11, 25, 0, 0, 0))
JAN15 == FromFields(Fields(2025, 1, 15, 0, 0, 0))
JAN31 == FromFields(Fields(2025, 1, 31, 0, 0, 0))
FEB10 == FromFields(Fields(2025, 2, 10, 0, 0, 0))
FEB28 == FromFields(Fields(2025, 2, 28, 0, 0, 0))
MAR15 == FromFields(Fields(2025, 3, 15, 0, 0, 0))
AUG21_0718 == FromFields(Fields(2025, 8, 21, 7, 18, 0))
NOV20 == FromFields(Fields(2025, 11, 20, 7, 18, 0))
DEC31 == FromFields(Fields(2025, 12, 31, 0, 0, 0))
JAN31_2026 == FromFields(Fields(2026, 1, 31, 0, 0, 0))
FEB10_2026 == FromFields(Fields(2026, 2, 10, 0, 0, 0))

\* The readings of the wall clock (DateTime.now()) the model draws from:
\* inside the default cycle (nineteen days before its end, and in its last
\* five minutes) and in the cycle after it.
FirstReading == SEP01
LastReading == SEP25
WallInstants == {FirstReading, SEP20_0715, LastReading}

\* The datetime-local values typed into the settings dialog; Unparseable is
\* a value DateTime.fromFormat rejects.
Unparseable == [valid |-> FALSE, f |-> Fields(0, 0, 0, 0, 0, 0)]
LocalValue(dt) == [valid |-> TRUE, f |-> asLocalInputValue(dt)]
\* The pairs of start and end typed before "Save dates": a valid pair, an
\* end before the start, an end equal to the start, an unparseable start.
EditInputs ==
  {<<LocalValue(SEP18), LocalValue(SEP20)>>,
   <<LocalValue(SEP20), LocalValue(SEP18)>>,
   <<LocalValue(SEP20), LocalValue(SEP20)>>,
   <<Unparseable, LocalValue(SEP20)>>}

\* The localStorage items the application may find when it starts.
StoredItems ==
  {NoItem, CorruptItem,
   JsonItem([reminders |-> [halfway |-> FALSE]]),
   JsonItem([startISO |-> toISO(SEP20)])}

\* useState(false) and useState(undefined): QA mode off, no QA instant.
QaOff == [mode |-> FALSE, nowISO |-> Unparseable]

\* The values typed into the "Now (local)" input of QA mode: an instant
\* inside the default cycle, one in the cycle after it, and a cleared input.
QaInputs == {LocalValue(AUG21), LocalValue(OCT01), Unparseable}

Themes == {"system", "dark"}
HourFormats == {"12h", "24h"}
Permissions == {"default", "granted", "denied"}

\* The checkboxes the user toggles: the earliest and the latest reminder.
ToggledKinds == {"halfway", "renewal"}

\* How a permission request settles: the user grants it, or dismisses the
\* prompt and the permission stays "default". schedule() ignores the answer
\* (lines 360-363), so a denial resumes it exactly as a grant does.
Answers == {"granted", "default"}

\* ------------------------------------------------------------------- state

VARIABLES
  cycle,       \* useState cycle of GPTDeadlineApp
  persisted,   \* the localStorage item "gpt-deadline:cycle"
  wall,        \* the wall clock, what DateTime.now() returns
  now,         \* useState now of useNowTick
  win,         \* the memoised { start, end, rolled } of the last render (line 504)
  permission,  \* Notification.permission
  timers,      \* timers.current: kind -> the pass whose timer it holds, 0 for none
  live,        \* the browser's pending setTimeout callbacks of schedule()
  pending,     \* schedule() calls suspended at await Notification.requestPermission()
  fired,       \* the notify() calls made so far: [pass, kind]
  passCount,   \* runs of the effect of useReminders so far
  passLog,     \* the inputs of each run
  edits,       \* settings operations of the user so far
  alerts,      \* alert() dialogs shown by onEditDates so far
  boot,        \* the item loadState read at the last mount, and what it returned
  qa,          \* useState qaMode and qaNowISO of GPTDeadlineApp
  parts,       \* a millisecond count and its breakdown by durationBreakdown and msToParts
  snoozed,     \* the browser's pending setTimeout callbacks of snooze()
  reminded     \* the snoozed reminders shown so far

vars == <<cycle, persisted, wall, now, win, permission, timers, live, pending,
          fired, passCount, passLog, edits, alerts, boot, qa, parts, snoozed, reminded>>

\* enabled[key] as a condition: a missing key is undefined, which is falsy.
Truthy(enabled, key) == key \in DOMAIN enabled /\ enabled[key]

\* The value of enabled[key] as React compares it in the dependency array.
DepValue(enabled, key) ==
  IF key \in DOMAIN enabled THEN (IF enabled[key] THEN "true" ELSE "false")
  ELSE "undefined"

\* The resolved window of a render (line 504).
Window(c, n) == rollCycleToNow(c, n)

\* The dependency array of the effect of useReminders (line 376) for the
\* flags enabled and the resolved window w.
DepsOf(enabled, w) == <<[k \in Kinds |-> DepValue(enabled, k)], w.start, w.end>>

\* A setTimeout(notify, delay) of schedule(): the timer of kind armed by
\* pass, delay milliseconds from armedAt.
Timer(pass, kind, delay, armedAt) ==
  [pass |-> pass, kind |-> kind, delay |-> delay, armedAt |-> armedAt]

\* window.setTimeout(notify, delay) converts delay to a signed 32-bit
\* number of milliseconds, modulo 2^32, and takes a negative result as 0.
\* Every delay of the model is a whole number of seconds; the result is in
\* ticks of 8 ms, which keep the conversion exact.
TicksPerUnit == 1000 \div 8
setTimeoutTicks(delay) ==
  Max(0, ((delay * TicksPerUnit + 2^28) % 2^29) - 2^28)

\* When timer t expires, in ticks after the first reading of the wall clock.
FireAt(t) == (t.armedAt - FirstReading) * TicksPerUnit + setTimeoutTicks(t.delay)

\* The instant t in the same ticks.
Ticks(t) == (t - FirstReading) * TicksPerUnit

\* Whether timers.current still holds the handle of timer t.
Held(tm, t) == tm[t.kind] = t.pass

\* Object.values(timers.current).forEach((id) => id && clearTimeout(id))
ClearHeld(tm, lv) == {t \in lv : ~Held(tm, t)}

\* What one schedule(key, at, ...) call does with delay = at - nowRef
\* (lines 347-363): return early, suspend at the await, or arm at once.
schedule(enabled, key, delay, perm) ==
  IF delay <= 0 \/ ~Truthy(enabled, key) THEN "skip"
  ELSE IF perm = "default" THEN "await"
  ELSE "arm"

\* ---------------------------------------------------- the reminder effect

\* A schedule() call of pass for kind, suspended at the await with the delay
\* it computed before suspending; detached when the component instance
\* whose timers ref it writes to has been unmounted.
Suspended(pass, kind, delay) ==
  [pass |-> pass, kind |-> kind, delay |-> delay, detached |-> FALSE]

\* The four schedule() calls of the effect (lines 367-370) with their
\* delays and what each of them did.
PassResult(enabled, w, delay, what, wallNow, perm, pass) ==
  [timers    |-> [k \in Kinds |-> IF what[k] = "arm" THEN pass ELSE 0],
   armed     |-> {Timer(pass, k, delay[k], wallNow) : k \in {x \in Kinds : what[x] = "arm"}},
   suspended |-> {Suspended(pass, k, delay[k]) : k \in {x \in Kinds : what[x] = "await"}},
   log       |-> [enabled |-> enabled, start |-> w.start, end |-> w.end,
                  nowRef |-> wallNow, perm |-> perm,
                  armed |-> {x \in Kinds : what[x] = "arm"}]]

\* The effect for the delays the four calls compute (line 348).
PassDelays(enabled, w, delay, wallNow, perm, pass) ==
  PassResult(enabled, w, delay,
             [k \in Kinds |-> schedule(enabled, k, delay[k], perm)], wallNow, perm, pass)

\* The effect for the instants at handed to the four calls.
PassTimes(enabled, w, at, wallNow, perm, pass) ==
  PassDelays(enabled, w, [k \in Kinds |-> at[k] - wallNow], wallNow, perm, pass)

\* The body of the effect of useReminders (lines 342-370), run as pass
\* number pass with the flags enabled and the window w, the wall clock
\* reading wallNow and Notification.permission being perm.
PassOutcome(enabled, w, wallNow, perm, pass) ==
  PassTimes(enabled, w, reminderTimes(w.start, w.end), wallNow, perm, pass)

\* The scheduler after a run of the effect with outcome o.
RearmWith(o, carried) ==
  /\ timers' = o.timers
  /\ live' = ClearHeld(timers, live) \cup o.armed
  /\ pending' = carried \cup o.suspended
  /\ passCount' = passCount + 1
  /\ passLog' = Append(passLog, o.log)

\* One run of the effect after a commit: the cleanup of the previous run
\* (lines 372-375) clears the timers that timers.current holds, then the
\* body runs. carried are the schedule() calls still suspended.
Rearm(enabled, w, carried) ==
  RearmWith(PassOutcome(enabled, w, wall, permission, passCount + 1), carried)

\* CommitIf without the effect that saves the cycle (line 519).
CommitIf_noSave(c, n, w, changed) ==
  /\ changed => passCount < MaxPasses
  /\ cycle' = c
  /\ now' = n
  /\ win' = w
  /\ persisted' = persisted
  /\ IF changed
     THEN Rearm(c.reminders, w, pending)
     ELSE UNCHANGED <<timers, live, pending, passCount, passLog>>

\* The commit of cycle c and now n with the resolved window w, changed
\* telling whether a dependency of the effect of useReminders changed. A
\* commit that would start a pass beyond MaxPasses is left out.
CommitIf(c, n, w, changed) ==
  /\ changed => passCount < MaxPasses
  /\ cycle' = c
  /\ now' = n
  /\ win' = w
  /\ persisted' = IF c # cycle THEN saveState(c) ELSE persisted
  /\ IF changed
     THEN Rearm(c.reminders, w, pending)
     ELSE UNCHANGED <<timers, live, pending, passCount, passLog>>

\* CommitWindow with the effect of useReminders run after every commit.
CommitWindow_everyCommit(c, n, w) == CommitIf(c, n, w, TRUE)

\* React compares the dependency array with the one of the last render.
CommitWindow(c, n, w) ==
  CommitIf(c, n, w, DepsOf(c.reminders, w) # DepsOf(cycle.reminders, win))

\* A state update of GPTDeadlineApp followed by its render and effects: the
\* window is resolved (line 504), the cycle is saved when it changed (line
\* 519), and the effect of useReminders runs when one of its dependencies
\* changed (line 376).
Commit(c, n) == CommitWindow(c, n, Window(c, n))

\* ------------------------------------------------------------- transitions

\* The mounted component: cycle c loaded from item, resolved window rw, the
\* outcome o of the first run of the effect, at the wall clock reading w.
MountedWith(item, c, rw, o, w, perm) ==
  /\ boot = [item |-> item, cycle |-> c]
  /\ qa = QaOff
  /\ parts = Parts(0)
  /\ snoozed = {}
  /\ reminded = << >>
  /\ cycle = c
  /\ persisted = saveState(c)
  /\ wall = w
  /\ now = w
  /\ win = rw
  /\ permission = perm
  /\ timers = o.timers
  /\ live = o.armed
  /\ pending = o.suspended
  /\ fired = {}
  /\ passCount = 1
  /\ passLog = <<o.log>>
  /\ edits = 0
  /\ alerts = 0

MountedWindow(item, c, rw, w, perm) ==
  MountedWith(item, c, rw, PassOutcome(c.reminders, rw, w, perm, 1), w, perm)

Mounted(item, c, w, perm) == MountedWindow(item, c, Window(c, w), w, perm)

\* The state after the first render and effects of a freshly mounted
\* GPTDeadlineApp (lines 486-519), whatever localStorage holds.
Init ==
  \E item \in StoredItems, perm \in Permissions :
    Mounted(item, loadState(item, DEFAULT_CYCLE), FirstReading, perm)

\* Time passes: the wall clock moves on to a later reading.
AdvanceClock ==
  /\ \E t \in WallInstants : t > wall /\ wall' = t
  /\ UNCHANGED <<cycle, persisted, now, win, permission, timers, live, pending,
                 fired, passCount, passLog, edits, alerts, boot, qa, parts, snoozed, reminded>>

\* The setInterval callback of useNowTick (line 330): in QA mode the
\* synthetic now moves on by a second, otherwise now becomes the wall clock.
Tick ==
  /\ IF qa.mode
     THEN now % MS_PER_MIN < MaxQaTicks /\ Commit(cycle, now + 1)
     ELSE now # wall /\ Commit(cycle, wall)
  /\ UNCHANGED <<wall, permission, fired, edits, alerts, boot, qa, parts, snoozed, reminded>>

\* A user mutation: setCycle(c), then render and effects. The user makes
\* at most MaxEdits settings operations.
SetCycle(c) ==
  /\ edits < MaxEdits
  /\ edits' = edits + 1
  /\ Commit(c, now)
  /\ UNCHANGED <<wall, permission, fired, alerts, boot, qa, parts, snoozed, reminded>>

\* updateReminder(k, v), called by the checkbox of kind k with its new state.
updateReminder(k) ==
  SetCycle([cycle EXCEPT !.reminders =
              Spread(@, [x \in {k} |-> ~Truthy(cycle.reminders, k)])])

\* toggleTheme(t) and toggleHourFmt(f), called with a value other than
\* the current one (a call with the current value changes no field).
toggleTheme(t) == t # cycle.theme /\ SetCycle([cycle EXCEPT !.theme = t])

toggleHourFmt(f) == f # cycle.hourFormat /\ SetCycle([cycle EXCEPT !.hourFormat = f])

\* function fromLocalInputValue(v, zone)
fromLocalInputValue(v) == [isValid |-> v.valid, dt |-> IF v.valid THEN FromFields(v.f) ELSE 0]

\* return alert("Please provide valid start/end with end after start.")
\* (line 547): the dialog is shown and onEditDates returns.
Refused ==
  /\ edits' = edits + 1
  /\ alerts' = alerts + 1
  /\ UNCHANGED <<cycle, persisted, wall, now, win, permission, timers, live,
                 pending, fired, passCount, passLog, boot, qa, parts, snoozed, reminded>>

\* EditDates that shows the dialog for an end not after the start and then
\* goes on to store the dates.
EditDates_noReturn(s, e) ==
  /\ edits < MaxEdits
  /\ IF ~s.isValid \/ ~e.isValid
     THEN Refused
     ELSE /\ edits' = edits + 1
          /\ alerts' = IF e.dt <= s.dt THEN alerts + 1 ELSE alerts
          /\ Commit([cycle EXCEPT !.startISO = toISO(s.dt), !.endISO = toISO(e.dt)], now)
          /\ UNCHANGED <<wall, permission, fired, boot, qa, parts, snoozed, reminded>>

\* The body of onEditDates for the parsed values s and e (lines 547-551).
EditDates(s, e) ==
  /\ edits < MaxEdits
  /\ IF ~s.isValid \/ ~e.isValid \/ e.dt <= s.dt
     THEN Refused
     ELSE SetCycle([cycle EXCEPT !.startISO = toISO(s.dt), !.endISO = toISO(e.dt)])

\* onEditDates(newStartLocal, newEndLocal): an unparseable value or an end
\* not after the start is refused with an alert.
onEditDates(newStartLocal, newEndLocal) ==
  EditDates(fromLocalInputValue(newStartLocal), fromLocalInputValue(newEndLocal))

\* "Recompute 1-month end" (lines 833-838)
RecomputeEnd ==
  SetCycle([cycle EXCEPT !.endISO = toISO(monthAddCalendar(cycle.timezone, inZone(cycle.startISO), 1))])

\* onResetDefaults / "Reset to defaults", pressed when some field differs
\* from the defaults.
onResetDefaults == cycle # DEFAULT_CYCLE /\ SetCycle(DEFAULT_CYCLE)

\* The permission request settles (the user answers or dismisses the
\* prompt): every suspended schedule() call resumes, oldest first, and arms
\* its timer with the delay it computed before suspending (line 363). A
\* call of the mounted instance stores the handle in timers.current[key].
ResolvePermission(outcome) ==
  /\ pending # {}
  /\ permission' = outcome
  /\ timers' = [k \in Kinds |->
                  LET ps == {p.pass : p \in {q \in pending : q.kind = k /\ ~q.detached}}
                  IN  IF ps = {} THEN timers[k]
                      ELSE CHOOSE m \in ps : \A x \in ps : x <= m]
  /\ live' = live \cup {Timer(p.pass, p.kind, p.delay, wall) : p \in pending}
  /\ pending' = {}
  /\ UNCHANGED <<cycle, persisted, wall, now, win, fired, passCount, passLog, edits, alerts, boot, qa, parts, snoozed, reminded>>

\* A timer of schedule() expires and the browser calls notify (lines
\* 350-359); expired timers run in the order of their expiry.
Fire(t) ==
  /\ t \in live
  /\ Ticks(wall) >= FireAt(t)
  /\ \A u \in live : FireAt(u) >= FireAt(t)
  /\ live' = live \ {t}
  /\ fired' = fired \cup {[pass |-> t.pass, kind |-> t.kind]}
  /\ UNCHANGED <<cycle, persisted, wall, now, win, permission, timers, pending,
                 passCount, passLog, edits, alerts, boot, qa, parts, snoozed, reminded>>

\* The new instance with the loaded cycle c and its resolved window w.
RemountWindow(c, w) ==
  /\ boot' = [item |-> persisted, cycle |-> c]
  /\ qa' = QaOff
  /\ cycle' = c
  /\ persisted' = saveState(c)
  /\ now' = wall
  /\ win' = w
  /\ Rearm(c.reminders, w, {[p EXCEPT !.detached = TRUE] : p \in pending})

RemountWith(c) == RemountWindow(c, Window(c, wall))

\* The host unmounts <GPTDeadlineApp /> and mounts it again in the same
\* page: the cleanup of the effect runs (lines 372-375), the schedule()
\* calls still suspended keep the old instance's timers ref, and the new
\* instance starts from localStorage with the wall clock as now and runs
\* its effects.
Remount ==
  /\ passCount < MaxPasses
  /\ RemountWith(loadState(persisted, DEFAULT_CYCLE))
  /\ UNCHANGED <<wall, permission, fired, edits, alerts, parts, snoozed, reminded>>

Next ==
  \/ AdvanceClock
  \/ Tick
  \/ \E k \in ToggledKinds : updateReminder(k)
  \/ \E t \in Themes : toggleTheme(t)
  \/ \E f \in HourFormats : toggleHourFmt(f)
  \/ \E v \in EditInputs : onEditDates(v[1], v[2])
  \/ RecomputeEnd
  \/ onResetDefaults
  \/ \E outcome \in Answers : ResolvePermission(outcome)
  \/ \E t \in live : Fire(t)
  \/ Remount

Spec == Init /\ [][Next]_vars

\* The wall clock keeps moving and the browser runs every expired timer;
\* nothing makes the user answer the permission prompt or touch the
\* settings.
LiveSpec ==
  /\ Spec
  /\ WF_vars(AdvanceClock)
  /\ WF_vars(\E t \in live : Fire(t))

\* ------------------------------------------------------------- QA mode

\* The second effect of useNowTick (line 333), run when qaMode or qaNowISO
\* changed to q: in QA mode with an instant set, now becomes that instant.
QaEffect(q) ==
  /\ qa' = q
  /\ IF q.mode /\ q.nowISO.valid
     THEN Commit(cycle, inZone(q.nowISO.f))
     ELSE UNCHANGED <<cycle, persisted, now, win, timers, live, pending,
                      passCount, passLog>>
  /\ UNCHANGED <<wall, permission, fired, edits, alerts, boot, parts, snoozed, reminded>>

\* The "Enable QA time override" checkbox: setQaMode(e.target.checked).
setQaMode(checked) == checked # qa.mode /\ QaEffect([qa EXCEPT !.mode = checked])

\* What fromLocalInputValue(v).toISO() returns: the ISO string of a parsed
\* value, null for a value that does not parse.
ParsedISO(p) ==
  IF p.isValid THEN [valid |-> TRUE, f |-> toISO(p.dt)] ELSE Unparseable

\* The "Now (local)" input, rendered in QA mode (line 755):
\* setQaNowISO(fromLocalInputValue(e.target.value, cycle.timezone).toISO()).
setQaNowISO(v) ==
  /\ qa.mode
  /\ ParsedISO(fromLocalInputValue(v)) # qa.nowISO
  /\ QaEffect([qa EXCEPT !.nowISO = ParsedISO(fromLocalInputValue(v))])

\* The application opened without a stored record.
QaInit == \E perm \in Permissions : Mounted(NoItem, DEFAULT_CYCLE, FirstReading, perm)

QaNext ==
  \/ \E checked \in BOOLEAN : setQaMode(checked)
  \/ \E v \in QaInputs : setQaNowISO(v)
  \/ Tick
  \/ AdvanceClock
  \/ \E outcome \in Answers : ResolvePermission(outcome)
  \/ \E t \in live : Fire(t)

QaSpec == QaInit /\ [][QaNext]_vars

\* -------------------------------------------------------------- snooze

\* The buttons "Snooze 1h" and "Snooze 10m" (lines 706-707).
SnoozeMinutes == {60, 10}

\* snooze(minutes) (lines 378-391): window.setTimeout(..., minutes *
\* MS_PER_MIN) arms the timer of the snoozed reminder; its handle is
\* returned and is not stored in timers.current. pass is the run of the
\* effect of useReminders that came last. The toast the call shows, and the
\* timer that removes the toast after 3 s, are outside the state kept here,
\* as the toasts of notify are.
snooze(minutes) ==
  /\ Cardinality(snoozed) + Len(reminded) < MaxSnoozes
  /\ snoozed' = snoozed \cup
       {[id |-> Cardinality(snoozed) + Len(reminded) + 1, pass |-> passCount,
         delay |-> minutes * MS_PER_MIN, armedAt |-> wall]}
  /\ UNCHANGED <<cycle, persisted, wall, now, win, permission, timers, live, pending,
                 fired, passCount, passLog, edits, alerts, boot, qa, parts, reminded>>

\* SnoozeElapsed that leaves the timer armed, as a setInterval would.
SnoozeElapsed_repeating(z) ==
  /\ z \in snoozed
  /\ Ticks(wall) >= FireAt(z)
  /\ Len(reminded) <= MaxSnoozes
  /\ snoozed' = snoozed
  /\ reminded' = Append(reminded, [id |-> z.id, pass |-> z.pass, at |-> wall,
                                   firedIn |-> passCount])
  /\ UNCHANGED <<cycle, persisted, wall, now, win, permission, timers, live, pending,
                 fired, passCount, passLog, edits, alerts, boot, qa, parts>>

\* The timer z of snooze() expires and the browser calls its callback
\* (lines 382-387), which shows the snoozed reminder; firedIn is the run of
\* the effect of useReminders that came last.
SnoozeElapsed(z) ==
  /\ z \in snoozed
  /\ Ticks(wall) >= FireAt(z)
  /\ snoozed' = snoozed \ {z}
  /\ reminded' = Append(reminded, [id |-> z.id, pass |-> z.pass, at |-> wall,
                                   firedIn |-> passCount])
  /\ UNCHANGED <<cycle, persisted, wall, now, win, permission, timers, live, pending,
                 fired, passCount, passLog, edits, alerts, boot, qa, parts>>

\* The application opened without a stored record.
SnoozeInit == \E perm \in Permissions : Mounted(NoItem, DEFAULT_CYCLE, FirstReading, perm)

SnoozeNext ==
  \/ \E minutes \in SnoozeMinutes : snooze(minutes)
  \/ \E z \in snoozed : SnoozeElapsed(z)
  \/ AdvanceClock
  \/ Tick
  \/ \E k \in ToggledKinds : updateReminder(k)
  \/ \E outcome \in Answers : ResolvePermission(outcome)
  \/ \E t \in live : Fire(t)

SnoozeSpec == SnoozeInit /\ [][SnoozeNext]_vars

\* ------------------------------------------------- the cycle engine alone

\* The instants rollCycleToNow is resolved at: before, at and after the
\* anchors of the definitions below.
NowSamples ==
  {JAN15, FEB10, FEB28, MAR15, AUG10, AUG20, AUG21, SEP10, SEP18, SEP20_0715, SEP20,
   SEP25, OCT01, NOV25, FEB10_2026}

\* The anchors (start, end) of the stored cycle definitions the engine is
\* resolved for: the default month, a month anchored on the 31st, one day,
\* three months, two days, ten days, a month across the new year, three
\* weeks, six days, between four and five days, half a month ending on the
\* 31st, and two definitions
\* localStorage can hold although no dialog saves them (an end equal to the
\* start, an end before the start).
EngineAnchors ==
  {<<AUG20, SEP20>>, <<JAN31, FEB28>>, <<AUG20, AUG21_0718>>, <<AUG20, NOV20>>,
   <<SEP18, SEP20>>, <<AUG10, AUG20>>, <<DEC31, JAN31_2026>>, <<SEP10, OCT01>>,
   <<SEP10, SEP16>>, <<SEP20, SEP25>>, <<JAN15, JAN31>>,
   <<SEP20, SEP20>>, <<OCT01, SEP20>>}

\* The component rendering at n the definition c loaded from item, the
\* reminder scheduler left out: no pass has run and none runs.
EngineMounted(item, c, n) ==
  /\ boot = [item |-> item, cycle |-> c]
  /\ qa = QaOff
  /\ parts = Parts(0)
  /\ snoozed = {}
  /\ reminded = << >>
  /\ cycle = c
  /\ persisted = saveState(c)
  /\ wall = n
  /\ now = n
  /\ win = Window(c, n)
  /\ permission = "denied"
  /\ timers = [k \in Kinds |-> 0]
  /\ live = {}
  /\ pending = {}
  /\ fired = {}
  /\ passCount = 0
  /\ passLog = << >>
  /\ edits = 0
  /\ alerts = 0

\* A cycle definition read from localStorage, rendered at the first sample.
EngineStored(item, n) == EngineMounted(item, loadState(item, DEFAULT_CYCLE), n)

EngineInit ==
  \E a \in EngineAnchors :
    EngineStored(JsonItem([startISO |-> toISO(a[1]), endISO |-> toISO(a[2])]), JAN15)

\* The clock moves on and the window is resolved again for the same
\* definition (lines 330 and 504).
EngineTick ==
  /\ \E n \in NowSamples : n > now /\ now' = n /\ wall' = n /\ win' = Window(cycle, n)
  /\ UNCHANGED <<cycle, persisted, permission, timers, live, pending, fired,
                 passCount, passLog, edits, alerts, boot, qa, parts, snoozed, reminded>>

EngineNext == EngineTick

EngineSpec == EngineInit /\ [][EngineNext]_vars

\* -------------------------------------------------- the breakdown alone

\* The millisecond counts the breakdowns are applied to: every combination
\* of no, one and twenty-three days, the first, second and last hour of
\* the day, the first and last minute, the first and last second, and the
\* first, second and last millisecond of the second.
BreakdownInputs ==
  {Millis(d * MS_PER_DAY + h * MS_PER_HOUR + m * MS_PER_MIN + x) + r :
     d \in {0, 1, 23}, h \in {0, 1, 23}, m \in {0, 59}, x \in {0, 59}, r \in {0, 1, 999}}

\* The countdown rendered for the default cycle, before any breakdown.
BreakdownInit == EngineMounted(NoItem, DEFAULT_CYCLE, FirstReading)

\* A render breaks the remaining time ms down (line 510 and line 46).
Breakdown(ms) ==
  /\ parts' = Parts(ms)
  /\ UNCHANGED <<cycle, persisted, wall, now, win, permission, timers, live, pending,
                 fired, passCount, passLog, edits, alerts, boot, qa, snoozed, reminded>>

BreakdownNext == \E ms \in BreakdownInputs : Breakdown(ms)

BreakdownSpec == BreakdownInit /\ [][BreakdownNext]_vars

\* ------------------------------------- the cycle engine in a stored zone

\* Noon in America/New_York on 2025-02-10, 2025-03-10, 2025-10-04 and
\* 2025-11-04 (daylight saving starts on 2025-03-09 and ends on 2025-11-02).
FEB10_NY == FromFields(Fields(2025, 2, 10, 22, 45, 0))
MAR10_NY == FromFields(Fields(2025, 3, 10, 21, 45, 0))
OCT04_NY == FromFields(Fields(2025, 10, 4, 21, 45, 0))
NOV04_NY == FromFields(Fields(2025, 11, 4, 22, 45, 0))

\* The anchors of the stored definitions resolved in each zone: the default
\* month, a month ending two days after daylight saving ends in New York,
\* a month ending a day after it starts there, a month anchored on the 31st.
ZoneAnchors ==
  {<<AUG20, SEP20>>, <<OCT04_NY, NOV04_NY>>, <<FEB10_NY, MAR10_NY>>, <<JAN31, FEB28>>}

\* A stored record naming its zone, rendered at the first sample.
ZoneInit ==
  \E zone \in Zones, a \in ZoneAnchors :
    EngineStored(JsonItem([timezone |-> zone,
                           startISO |-> toISO(a[1]),
                           endISO   |-> toISO(a[2])]), JAN15)

ZoneNext == EngineTick

ZoneSpec == ZoneInit /\ [][ZoneNext]_vars

\* ------------------------------------------------------------------ claims

anchorStart == inZone(cycle.startISO)
anchorEnd == inZone(cycle.endISO)

\* C1: window containment. For a definition with anchorEnd > anchorStart and
\* now >= anchorStart, the window rollCycleToNow returns has
\* start <= now < end.
C1_WindowContainment ==
  (anchorEnd > anchorStart /\ now >= anchorStart) =>
    (win.start <= now /\ now < win.end)

\* A definition rolled forward more than once, its window holding now.
C1_Witness ==
  /\ anchorEnd > anchorStart
  /\ win.rolled
  /\ win.start > anchorEnd
  /\ win.start <= now
  /\ now < win.end

\* C2: at most one live timer per milestone kind, and every live timer was
\* armed by the most recent rearm pass.
C2_OneLiveTimerPerKind ==
  /\ \A k \in Kinds : Cardinality({t \in live : t.kind = k}) <= 1
  /\ \A t \in live : t.pass = passCount

\* elapsedMs / totalMs of the last render.
elapsedFraction == Progress(win.start, win.end, now).progress

\* C3: progress bounds. In every reachable state elapsedMs / (end - start)
\* is a number in [0, 1].
C3_ProgressBounds ==
  /\ ~elapsedFraction.isNaN
  /\ elapsedFraction.den # 0
  /\ IF elapsedFraction.den > 0
     THEN 0 <= elapsedFraction.num /\ elapsedFraction.num <= elapsedFraction.den
     ELSE elapsedFraction.den <= elapsedFraction.num /\ elapsedFraction.num <= 0

\* C4: pre-cycle stability. For now < anchorStart rollCycleToNow returns the
\* anchor window itself, with rolled false.
C4_PreCycleStability ==
  now < anchorStart => win = ResolvedWindow(anchorStart, anchorEnd, FALSE)

\* A definition with anchorEnd > anchorStart resolved before its start.
C4_Witness ==
  /\ now < anchorStart
  /\ anchorEnd > anchorStart
  /\ win.end = anchorEnd
  /\ ~win.rolled

C6_ArmingRule ==
  \A p \in 1..Len(passLog) : \A k \in Kinds :
    (k \in passLog[p].armed) <=>
      (/\ Truthy(passLog[p].enabled, k)
       /\ milestoneTimes(passLog[p].start, passLog[p].end)[k] > passLog[p].nowRef)

\* The instant the reminder of kind k is aimed at in the pass logged as L:
\* the milestone, and five minutes before the end for the renewal reminder.
ReminderTarget(L, k) ==
  IF k = "renewal" THEN L.end - 5 * MS_PER_MIN
  ELSE milestoneTimes(L.start, L.end)[k]

Due(p, k) ==
  /\ p <= Len(passLog)
  /\ Truthy(passLog[p].enabled, k)
  /\ milestoneTimes(passLog[p].start, passLog[p].end)[k] > passLog[p].nowRef
  /\ milestoneTimes(passLog[p].start, passLog[p].end)[k] <= LastReading

SameInputs(L1, L2) ==
  /\ L1.enabled = L2.enabled
  /\ L1.start = L2.start
  /\ L1.end = L2.end
  /\ L1.nowRef = L2.nowRef

\* C9: idempotent rearm. Two passes in a row with identical milestones,
\* flags and now leave, per kind, what one pass leaves: at most one timer,
\* live or fired.
C9_IdempotentRearm ==
  \A p \in 1..(Len(passLog) - 1) :
    SameInputs(passLog[p], passLog[p + 1]) =>
      \A k \in Kinds :
        Cardinality({t \in live : t.kind = k /\ t.pass \in {p, p + 1}})
          + Cardinality({f \in fired : f.kind = k /\ f.pass \in {p, p + 1}}) <= 1

\* C10: Scenario D. While the flag of a kind stays disabled (the rearm pass
\* of the change that disabled it has run), no reminder of that kind fires.
C10_DisabledKindSilent ==
  [][\A k \in Kinds :
       (~Truthy(cycle.reminders, k) /\ ~Truthy(cycle'.reminders, k)) =>
         \A f \in fired' \ fired : f.kind # k]_vars

\* The milestones of the window of the last render.
winMilestones == milestoneTimes(win.start, win.end)

\* Strict order of the four milestones, the renewal being the end.
Ordered(m, end) ==
  /\ m.halfway < m.threeDays
  /\ m.threeDays < m.lastDay
  /\ m.lastDay < m.renewal
  /\ m.renewal = end

zonedMilestones == milestoneTimesIn(cycle.timezone, win.start, win.end)

\* C12: milestone formulas. For every window, in any zone, halfway = start
\* + (end - start) / 2, threeDays = end - 72 hours of elapsed time and
\* lastDay = end - 24 hours of elapsed time; in a 31-day window halfway =
\* start + 15 d 12 h.
C12_MilestoneFormulas ==
  /\ zonedMilestones.halfway = win.start + (win.end - win.start) \div 2
  /\ zonedMilestones.threeDays = win.end - 72 * MS_PER_HOUR
  /\ zonedMilestones.lastDay = win.end - 24 * MS_PER_HOUR
  /\ (win.end - win.start = 31 * MS_PER_DAY) =>
       zonedMilestones.halfway = win.start + 15 * MS_PER_DAY + 12 * MS_PER_HOUR

\* C13: the cycle definition has anchorEnd > anchorStart in every reachable
\* state, whether it was restored from storage or produced by onEditDates,
\* "Recompute 1-month end" or the reset to defaults.
C13_AnchorsOrdered == anchorEnd > anchorStart

\* C14: InvalidConfiguration. An onEditDates call refused for an
\* unparseable value or an end not after the start changes nothing: the
\* cycle definition, the persisted record, the resolved window and the
\* timers are what they were before the call.
C14_RefusedEditChangesNothing ==
  [][alerts' # alerts =>
       UNCHANGED <<cycle, persisted, win, timers, live, pending, passCount>>]_vars

\* An edit has been refused while reminders were armed.
C14_Witness == alerts > 0 /\ live # {}

\* What a per-key merge of the stored object val over the defaults holds
\* for key k of the definition and for the flag of kind k.
StoredOrDefault(val, k) ==
  IF k \in DOMAIN val THEN val[k] ELSE DEFAULT_CYCLE[k]

FlagStoredOrDefault(val, k) ==
  IF "reminders" \in DOMAIN val /\ k \in DOMAIN val.reminders
  THEN val.reminders[k]
  ELSE DEFAULT_CYCLE.reminders[k]

\* C15: loading tolerates missing or corrupt data per key. Every field of
\* the loaded definition, each of the four reminder flags individually, is
\* the stored value when its key is present and the default when it is
\* absent; no item or an unparseable item yields exactly the defaults.
C15_PerKeyFallback ==
  IF boot.item.tag # "json"
  THEN boot.cycle = DEFAULT_CYCLE
  ELSE /\ \A k \in (DOMAIN DEFAULT_CYCLE) \ {"reminders"} :
            boot.cycle[k] = StoredOrDefault(boot.item.val, k)
       /\ \A k \in Kinds :
            /\ k \in DOMAIN boot.cycle.reminders
            /\ boot.cycle.reminders[k] = FlagStoredOrDefault(boot.item.val, k)

RECURSIVE MonthChain(_, _, _)
MonthChain(zone, e, upTo) ==
  IF e > upTo THEN {}
  ELSE {e} \cup MonthChain(zone, monthAddCalendar(zone, e, 1), upTo)

\* C17: rollover step (Scenario B). Whenever now is at or past the end of
\* a definition already started, the resolver rolls: the start of the
\* resolved window is the anchor end moved on by whole rollover steps of
\* one calendar month each, and its end is one calendar month after its
\* start. The default definition at 2025-09-25T00:00 rolls exactly once, to
\* 2025-09-20T07:18 .. 2025-10-20T07:18 with rolled = true.
C17_RolloverStep ==
  /\ (now >= anchorStart /\ now >= anchorEnd) => win.rolled
  /\ win.rolled =>
       /\ win.start \in MonthChain(cycle.timezone, anchorEnd, now)
       /\ win.end = monthAddCalendar(cycle.timezone, win.start, 1)
  /\ (anchorStart = AUG20 /\ anchorEnd = SEP20 /\ now = SEP25) =>
       win = ResolvedWindow(SEP20, OCT20, TRUE)

\* Scenario B: the default definition resolved at 2025-09-25T00:00.
C17_Witness ==
  /\ anchorStart = AUG20
  /\ anchorEnd = SEP20
  /\ now = SEP25
  /\ win.rolled
  /\ win.start = SEP20

\* Scenario A: the default definition rendered at 2025-08-21T10:00.
ScenarioA == anchorStart = AUG20 /\ anchorEnd = SEP20 /\ now = AUG21

startFields == ToFields(win.start + Offset(cycle.timezone, win.start))
endFields == ToFields(win.end + Offset(cycle.timezone, win.end))

\* C19: calendar-add clamping (Scenario E). The end of a rolled window, its
\* start plus one calendar month, has the local time of day of the start,
\* lies in the month after the start's, and has the start's day of the
\* month or, when that month is shorter, its last day; 2025-01-31 plus one
\* month is 2025-02-28 at the same local time.
C19_CalendarAddClamps ==
  win.rolled =>
    /\ endFields.hour = startFields.hour
    /\ endFields.minute = startFields.minute
    /\ endFields.second = startFields.second
    /\ endFields.year * 12 + endFields.month = startFields.year * 12 + startFields.month + 1
    /\ endFields.day = Min(startFields.day, DaysInMonth(endFields.year, endFields.month))
    /\ (win.start = JAN31) => (win.end = FEB28)

\* Scenario E: a window rolled to 2025-01-31, ending 2025-02-28.
C19_Witness ==
  /\ win.rolled
  /\ win.start = JAN31
  /\ endFields.day < startFields.day

\* C20: while the QA clock override is active, a rearm pass takes the
\* synthetic now of the component as its now: it is the instant the pass
\* tests the milestones against and the instant its delays count from.
C20_QaPassUsesSyntheticNow ==
  [][(qa'.mode /\ passCount' = passCount + 1) =>
       /\ passLog'[passCount'].nowRef = now'
       /\ \A t \in live' :
            t.pass = passCount' =>
              t.delay = ReminderTarget(passLog'[passCount'], t.kind) - now'
       /\ \A c \in pending' :
            c.pass = passCount' =>
              c.delay = ReminderTarget(passLog'[passCount'], c.kind) - now']_vars

\* C21: a switch into or out of QA mode, or a change of the QA instant,
\* cancels every milestone timer that was armed before it, also when the
\* resolved window stays the same.
C21_QaSwitchCancelsTimers ==
  [][qa' # qa => \A t \in live : t \notin live']_vars

\* C22: a tick, or a change of the theme or of the hour format, that leaves
\* the resolved start, the resolved end and the four reminder flags equal
\* changes no armed timer: none is cancelled, none is created, no schedule()
\* call is started and the effect of useReminders does not run.
C22_NoTimerChurn ==
  [][( /\ \/ Tick
          \/ \E t \in Themes : toggleTheme(t)
          \/ \E f \in HourFormats : toggleHourFmt(f)
       /\ DepsOf(cycle'.reminders, win') = DepsOf(cycle.reminders, win) )
     => UNCHANGED <<timers, live, pending, passCount, passLog>>]_vars

\* Timers of the first pass are still armed after a tick moved now and
\* after the theme was changed.
C22_Witness ==
  /\ passCount = 1
  /\ live # {}
  /\ now > passLog[1].nowRef
  /\ cycle.theme # boot.cycle.theme

\* totalMs, elapsedMs and remainingMs of the last render.
rendered == Progress(win.start, win.end, now)

\* C23: for a resolved window with end > start, the remaining time
\* clamp(end - now, 0, end - start) is (end - start) - elapsedMs, so that
\* elapsedMs + remainingMs = totalMs, whatever now is.
C23_ElapsedPlusRemaining ==
  win.end > win.start =>
    /\ rendered.remainingMs = rendered.totalMs - rendered.elapsedMs
    /\ rendered.elapsedMs + rendered.remainingMs = rendered.totalMs

\* A render before the start of the window, where both clamps act.
C23_Witness ==
  /\ win.end > win.start
  /\ now < win.start
  /\ rendered.elapsedMs = 0
  /\ rendered.remainingMs = rendered.totalMs

\* C24: for a millisecond count ms >= 0 the breakdown is made of whole
\* numbers with days >= 0, hours in 0..23, minutes in 0..59 and seconds in
\* 0..59 that add up to floor(ms / 1000) seconds, and durationBreakdown and
\* msToParts return the same parts.
C24_Breakdown ==
  parts.ms >= 0 =>
    /\ parts.durationBreakdown.days >= 0
    /\ parts.durationBreakdown.hours \in 0..23
    /\ parts.durationBreakdown.minutes \in 0..59
    /\ parts.durationBreakdown.seconds \in 0..59
    /\ parts.durationBreakdown.days * 86400 + parts.durationBreakdown.hours * 3600
         + parts.durationBreakdown.minutes * 60 + parts.durationBreakdown.seconds
       = parts.ms \div 1000
    /\ parts.durationBreakdown = parts.msToParts

\* A count one millisecond short of a whole day, after more than a day.
C24_Witness ==
  /\ parts.ms % 1000 = 999
  /\ parts.durationBreakdown.days > 0
  /\ parts.durationBreakdown.hours = 23
  /\ parts.durationBreakdown.minutes = 59
  /\ parts.durationBreakdown.seconds = 59

\* The ids of the snoozed reminders shown so far.
remindedIds == {reminded[i].id : i \in 1..Len(reminded)}

\* C25: snooze(minutes) arms exactly one timer, due minutes after the call,
\* and changes no milestone timer and no milestone state; a rearm pass
\* cancels no pending snooze timer; and a snooze timer that fires is the
\* one armed, not before it is due, is gone afterwards and has not fired
\* before.
C25_SnoozeIndependent ==
  [][ /\ (snoozed' # snoozed /\ reminded' = reminded) =>
           /\ snoozed \subseteq snoozed'
           /\ Cardinality(snoozed' \ snoozed) = 1
           /\ \A z \in snoozed' \ snoozed :
                z.armedAt = wall /\ z.delay \in {m * MS_PER_MIN : m \in SnoozeMinutes}
           /\ UNCHANGED <<cycle, win, timers, live, pending, fired, passCount, passLog>>
      /\ passCount' # passCount => UNCHANGED <<snoozed, reminded>>
      /\ reminded' # reminded =>
           \E z \in snoozed :
             /\ wall >= z.armedAt + z.delay
             /\ z.id \notin remindedIds
             /\ snoozed' = snoozed \ {z}
             /\ Len(reminded') = Len(reminded) + 1
             /\ reminded'[Len(reminded')].id = z.id
             /\ UNCHANGED <<timers, live, pending, fired, passCount>> ]_vars

\* A snoozed reminder armed while milestone timers were armed, shown after
\* a later rearm pass.
C25_Witness ==
  /\ passCount = 2
  /\ \E i \in 1..Len(reminded) : reminded[i].pass = 1 /\ reminded[i].firedIn = 2
  /\ \E p \in 1..2 : passLog[p].armed # {}

\* The first k cycle boundaries of a definition, seq holding the first of
\* them: the anchor end first, each of the others one calendar month after
\* the one before it.
RECURSIVE BoundarySeq(_, _, _)
BoundarySeq(zone, seq, k) ==
  IF Len(seq) >= k THEN seq
  ELSE BoundarySeq(zone, Append(seq, monthAddCalendar(zone, seq[Len(seq)], 1)), k)

\* The k-th cycle boundary of a definition whose anchor end is e.
BoundaryAt(zone, e, k) == BoundarySeq(zone, <<e>>, k)[k]

\* The boundaries of the stored definition that are at or before now, by
\* their index.
boundariesPassed == {k \in 1..MaxBoundaries : BoundaryAt(cycle.timezone, anchorEnd, k) <= now}

\* The iterations of the rollover loop in the render of the state.
iterations == RollIterations(cycle.timezone, anchorStart, anchorEnd, now)

C27_RolledIffExpired ==
  /\ win.rolled <=> (now >= anchorStart /\ now >= anchorEnd)
  /\ win.rolled <=> iterations > 0
  /\ (win.start = anchorStart /\ win.end = anchorEnd) => ~win.rolled

\* A definition resolved after its end has rolled, away from its anchors.
C27_Witness ==
  /\ anchorEnd > anchorStart
  /\ now > anchorEnd
  /\ win.rolled
  /\ win.start # anchorStart

\* C28: every delay handed to setTimeout by schedule(), for a timer armed at
\* once or after the permission request, is at most 2^31 - 1 ms, so that the
\* timer expires delay after it was armed and not before.
C28_DelayFitsTimer ==
  /\ \A t \in live :
       /\ t.delay <= 2147483647 \div Millis(1)
       /\ FireAt(t) = Ticks(t.armedAt + t.delay)
  /\ \A c \in pending : c.delay <= 2147483647 \div Millis(1)

\* const renewedState = now >= end (line 537), the condition of the banner
\* "Cycle renewed. Showing current window." (lines 849-853).
renewedState == now >= win.end

\* C29: in every render of a definition with anchorEnd > anchorStart, now is
\* before the resolved end: renewedState is false and the banner is not shown.
C29_BannerNeverShown == anchorEnd > anchorStart => ~renewedState

\* The render of the tick at which the window rolls over: now is the anchor
\* end, which has become the start of the resolved window.
C29_Witness ==
  /\ anchorEnd > anchorStart
  /\ now = anchorEnd
  /\ win.rolled
  /\ win.start = now
  /\ ~renewedState

\* The calendar fields of the anchor end in the zone of the cycle.
anchorEndFields == ToFields(anchorEnd + Offset(cycle.timezone, anchorEnd))

\* The anchor end moved on in one step by as many calendar months as the
\* loop has made steps.
directEnd == PlusMonths(cycle.timezone, anchorEnd, iterations)

\* C30: the clamping of the day of the month is sticky under iterated
\* rollover. The day of the resolved end is never later in the month than
\* the day of the end before it, nor than the day of the anchor end; and the
\* resolved end differs from the anchor end moved on by the same number of
\* months in one step exactly when a shorter month has clamped the day and
\* the month of the resolved end is long enough for a later day.
C30_StickyClamp ==
  iterations > 0 =>
    /\ endFields.day <= startFields.day
    /\ endFields.day <= anchorEndFields.day
    /\ win.end # directEnd <=>
         (/\ endFields.day < anchorEndFields.day
          /\ endFields.day < DaysInMonth(endFields.year, endFields.month))

\* An anchor end on the 31st rolled through February: the resolved end is on
\* the 28th of a month of 31 days, where one step from the anchor gives the 31st.
C30_Witness ==
  /\ iterations >= 2
  /\ anchorEndFields.day = 31
  /\ endFields.day = 28
  /\ endFields.month # 2
  /\ ToFields(directEnd).day = 31

====
